---- MODULE Spec2Model ----
(***************************************************************************)
(* Model of the real-time event layer of biddergod-frontend.               *)
(*                                                                         *)
(* Part 1: the useSSE hook (src/src/hooks/useSSE.ts), the stream           *)
(* connection manager.  One hook instance is modelled.  Every task of the  *)
(* browser's event loop that touches the hook is one action: the mount     *)
(* effect and its cleanup, the user's disconnect() and reconnect() calls,  *)
(* the completion of a credential fetch (the continuation of connect()     *)
(* after its await), the EventSource callbacks onopen / onerror, and the   *)
(* firing of a retry timer.  EventSource objects and timers are modelled   *)
(* as objects with identity, because the hook only remembers the last one  *)
(* of each in a ref while older ones may still be alive.                   *)
(*                                                                         *)
(* A closed EventSource and a fired or cleared timer never act again, so   *)
(* their slots are reused.  The callbacks onOpen, onError and              *)
(* onMaxRetriesReached are taken to be supplied; their invocations are     *)
(* recorded in the history variable `last`.  State setters are applied     *)
(* whether or not the component is still mounted.                          *)
(*                                                                         *)
(* Part 2: the event handling of the auction grid                          *)
(* (src/src/components/AuctionsGrid.tsx): the auction list held in React   *)
(* state, the highlight set and its expiry timers, the winner notification *)
(* and the list fetches.  handleSSEEvent is an operator on that state; the *)
(* handler that a connection calls is the one of the render in which the   *)
(* hook's effect called connect(), with the props and the auction list of  *)
(* that render.  State that only drives rendering (loading, error, the     *)
(* search filters) and the fields of an event that are copied through      *)
(* unread (paymentDeadline, sellerId) are not represented.                 *)
(*                                                                         *)
(* The hook is also studied as the developer console uses it               *)
(* (src/src/components/DevConsole.tsx), where autoReconnect follows the    *)
(* console's enableSSE state and connections are started by reconnect().   *)
(***************************************************************************)
EXTENDS Integers, FiniteSets, Sequences

\* ---------------------------------------------------------------- bounds
\* Largest value of the maxReconnectAttempts option that is explored.
MaxK == 2
\* Connection attempts that may be in progress at the same time: connect()
\* calls awaiting the credential, un-closed EventSources and pending timers.
MaxChains == 2
\* Transport errors, and timers scheduled, that are counted within one burst:
\* one more than the largest retry budget, so that the budget can be exceeded.
MaxBurst == MaxK + 1

SourceIds == 1..MaxChains
TimerIds == 1..MaxChains

\* Value of reconnectTimeoutRef.current when it holds the id of a timer that
\* has already fired (the code never clears the ref when the timer fires).
StaleTimer == -1

VARIABLES
    \* ---- options of the hook (useSSE.ts:65-76), fixed at construction
    autoConnect,            \* options.autoConnect
    autoReconnect,          \* options.autoReconnect
    maxReconnectAttempts,   \* options.maxReconnectAttempts (0 = unlimited)
    \* ---- React state and refs of the hook (useSSE.ts:78-84)
    isConnected,
    connectionError,
    reconnectAttempts,
    eventSourceRef,         \* 0 = null, else the id of an EventSource
    reconnectTimeoutRef,    \* 0 = null, StaleTimer, else the id of a timer
    isManualDisconnectRef,
    reconnectAttemptsRef,
    \* ---- the environment the hook lives in
    phase,                  \* "init" (rendered, effect not run) | "mounted" | "unmounted"
    sources,                \* EventSource objects: id -> [st, ar]
    timers,                 \* setTimeout timers:   id -> [st, ar]
    fetching,               \* connect() calls suspended at `await fetchAuthSession()`,
                            \* counted per captured autoReconnect value
    \* ---- history variables (observers, never read by the actions' effects)
    last,                   \* what the last task did
    burstErrors,            \* transport errors since the last reset
    burstTimers,            \* retry timers scheduled since the last reset
    burstAuto,              \* timer-driven connect() calls since the last reset (capped)
    burstOnError,           \* onError invocations since the last reset (0, 1, 2 = several)
    burstThrew,             \* a set-up exception occurred since the last reset
    burstZombie,            \* a transport error since the last reset hit a connection
                            \* while the manual-disconnect flag was set
    userDisconnected,       \* disconnect() was called and no connect was requested since
    maxReported,            \* max-retries was reported and neither a reset nor a connect
                            \* requested by the effect happened since
    overlapped              \* two connection attempts were in progress at once, ever

hookVars == <<isConnected, connectionError, reconnectAttempts, eventSourceRef,
              reconnectTimeoutRef, isManualDisconnectRef, reconnectAttemptsRef>>
optVars == <<autoConnect, autoReconnect, maxReconnectAttempts>>
envVars == <<phase, sources, timers, fetching>>
histVars == <<last, burstErrors, burstTimers, burstAuto, burstOnError, burstThrew,
              burstZombie, userDisconnected, maxReported, overlapped>>

\* ------------------------------------------------- bounds of the grid part
\* Largest bid count that occurs in events and in the list.
MaxBids == 2
\* Highlight timers that may be pending, and list fetches in flight, at once.
MaxHighlightTimers == 2
MaxFetches == 1

\* The AuctionsGrid component, a record:
\*   user, currentUsername   its props (AuctionsGrid.tsx:13-16, 27): whether the
\*                           user prop is truthy; the name, Absent when not given
\*   auctions                React state: id -> [title, currentBid, totalBids, status]
\*   updatedAuctionIds       React state: the highlight set
\*   winnerNotification      React state
\*   phase                   "init" (rendered, effects not run) | "mounted"
\*   highlightTimers         pending 3000 ms timers, oldest first: the ids they remove
\*   fetches                 getAllAuctions() calls awaiting their response
\*   onEvent                 the handler closure the connection calls
\*   inbox                   the decoded event whose message task is running:
\*                           <<>> or <<event>>
VARIABLE grid

gridVars == <<grid>>

vars == <<optVars, hookVars, envVars, histVars, gridVars>>

\* ------------------------------------------------------------- helpers
Min(a, b) == IF a <= b THEN a ELSE b

\* connectionError values.  The retry message carries the attempt number.
ErrNone == [kind |-> "null", n |-> 0]
ErrNoToken == [kind |-> "No authentication token available", n |-> 0]
ErrMaxRetries == [kind |-> "Max reconnection attempts reached", n |-> 0]
ErrRetry(n) == [kind |-> "Connection lost. Retry attempt", n |-> n]
ErrClosed == [kind |-> "SSE connection closed", n |-> 0]
ErrSetup == [kind |-> "Error setting up SSE", n |-> 0]

FreeObj == [st |-> "free", ar |-> FALSE]

LiveSources == {i \in SourceIds : sources[i].st # "free"}
PendingTimers == {i \in TimerIds : timers[i].st = "pending"}
\* Connection attempts in progress in a state with these fetches, sources and timers.
Chains(f, s, t) ==
    f[TRUE] + f[FALSE] + Cardinality({i \in SourceIds : s[i].st # "free"})
                       + Cardinality({i \in TimerIds : t[i].st = "pending"})
\* Bound of the model: a task that calls connect() is explored only when the
\* state it leaves holds at most MaxChains attempts in progress.
WithinBound == Chains(fetching', sources', timers') <= MaxChains
\* History: whether two attempts have ever been in progress at the same time.
TrackOverlap == overlapped' = (overlapped \/ Chains(fetching', sources', timers') >= 2)

\* The id given to a newly created object: the smallest unused one.
NewId(S, f) == CHOOSE i \in S : f[i].st = "free" /\ \A j \in S : f[j].st = "free" => i <= j
HasFree(S, f) == \E i \in S : f[i].st = "free"

\* The record of a task: which handler ran, the callbacks it invoked, whether it
\* scheduled a retry timer, the value the retry counter had before it, and
\* whether an exception left the handler.
NoCall == [op |-> "none", onOpen |-> 0, onError |-> FALSE, onMax |-> FALSE,
           scheduled |-> FALSE, before |-> 0, onEvent |-> FALSE, escaped |-> FALSE]
Did(op) == [NoCall EXCEPT !.op = op, !.before = reconnectAttemptsRef]

\* connect() up to its first suspension point: the call returns a pending
\* promise that awaits fetchAuthSession().  ar is the autoReconnect value
\* captured by the closure.
ConnectCall(f, ar) == [f EXCEPT ![ar] = @ + 1]

\* clearTimeout(id): cancels the timer if it is still pending.
ClearTimeout(t, id) == IF id \in TimerIds THEN [t EXCEPT ![id] = FreeObj] ELSE t

\* eventSource.close()
CloseSource(s, id) == IF id \in SourceIds THEN [s EXCEPT ![id] = FreeObj] ELSE s

ResetBurst ==
    /\ burstErrors' = 0
    /\ burstTimers' = 0
    /\ burstAuto' = 0
    /\ burstOnError' = 0
    /\ burstThrew' = FALSE
    /\ burstZombie' = FALSE
    /\ maxReported' = FALSE

KeepBurst == UNCHANGED <<burstErrors, burstTimers, burstAuto, burstOnError, burstThrew,
                         burstZombie, maxReported>>

\* ------------------------------------------------ values of the grid part
\* JavaScript values of a numeric field of an event or an auction: a missing
\* property reads as undefined, JSON carries null, otherwise a number >= 0.
Undefined == -2
Null == -1
\* A string that is missing or empty (both are falsy, and neither equals an
\* auction id or a user name).
Absent == ""

AuctionIds == {"a1", "a2"}
Usernames == {"alice", "bob"}
\* Prices: zero and a price that is not zero.
Prices == {0, 1}
Statuses == {"open", "closed"}

\* itemName of the auction with this id, as the auction service reports it.
TitleOf(id) == IF id = "a1" THEN "Lamp" ELSE "Vase"

\* useState initial values (AuctionsGrid.tsx:28, 34, 37).
EmptyList == [id \in {} |-> Absent]
NoNotification == [shown |-> FALSE, auctionId |-> Absent, auctionTitle |-> Absent,
                   finalPrice |-> 0]
\* No connection has been started: no handler is registered.
NoHandler == [live |-> FALSE, auctions |-> EmptyList, currentUsername |-> Absent]

\* The grid as first rendered with these props, before its effects run.
GridInitial(u, name) ==
    [user |-> u, currentUsername |-> name, auctions |-> EmptyList,
     updatedAuctionIds |-> {}, winnerNotification |-> NoNotification,
     phase |-> "init", highlightTimers |-> <<>>, fetches |-> 0,
     onEvent |-> NoHandler, inbox |-> <<>>]

\* ----------------------------------------------------------------- Init
\* The state and the refs of the hook as constructed (useSSE.ts:78-84), in an
\* environment that holds nothing of it yet.
HookConstructed ==
    /\ isConnected = FALSE
    /\ connectionError = ErrNone
    /\ reconnectAttempts = 0
    /\ eventSourceRef = 0
    /\ reconnectTimeoutRef = 0
    /\ isManualDisconnectRef = FALSE
    /\ reconnectAttemptsRef = 0
    /\ phase = "init"
    /\ sources = [i \in SourceIds |-> FreeObj]
    /\ timers = [i \in TimerIds |-> FreeObj]
    /\ fetching = [b \in BOOLEAN |-> 0]
    /\ last = NoCall
    /\ burstErrors = 0
    /\ burstTimers = 0
    /\ burstAuto = 0
    /\ burstOnError = 0
    /\ burstThrew = FALSE
    /\ burstZombie = FALSE
    /\ userDisconnected = FALSE
    /\ maxReported = FALSE
    /\ overlapped = FALSE

\* The hook as constructed, for every choice of its options.
HookInit ==
    /\ autoConnect \in BOOLEAN
    /\ autoReconnect \in BOOLEAN
    /\ maxReconnectAttempts \in 0..MaxK
    /\ HookConstructed

\* Part 1 studies the hook on its own: the grid is not mounted.
Init == HookInit /\ grid = GridInitial(FALSE, Absent)

\* ------------------------------------------------- decisions of the code
\* Variant: the callback is invoked for every error.
ShouldCallOnErrorAlways(attempts) == TRUE

\* useSSE.ts:154  `reconnectAttemptsRef.current === 0` guards the onError call.
ShouldCallOnError(attempts) == attempts = 0

\* Variant: a failure is never retried.
ShouldAutoReconnectNever(ar, manual) == FALSE

\* useSSE.ts:159 and :199  `autoReconnect && !isManualDisconnectRef.current`
ShouldAutoReconnect(ar, manual) == ar /\ ~manual

\* Variants: the comparison with the budget is off by one, either way.
MaxReachedLate(K, attempts) == K > 0 /\ attempts > K
MaxReachedEarly(K, attempts) == K > 0 /\ attempts + 1 >= K

\* Variant: the budget is never enforced.
MaxReachedNever(K, attempts) == FALSE

\* useSSE.ts:161  `maxReconnectAttempts > 0 && reconnectAttemptsRef.current >= maxReconnectAttempts`
MaxReached(K, attempts) == K > 0 /\ attempts >= K

\* ------------------------------------------------------------- actions

\* The mount effect (useSSE.ts:249-253).
Mount ==
    /\ phase = "init"
    /\ phase' = "mounted"
    /\ IF autoConnect
       THEN /\ isManualDisconnectRef' = FALSE
            /\ fetching' = ConnectCall(fetching, autoReconnect)
       ELSE UNCHANGED <<isManualDisconnectRef, fetching>>
    /\ last' = Did("mount")
    /\ UNCHANGED <<optVars, isConnected, connectionError, reconnectAttempts, eventSourceRef,
                   reconnectTimeoutRef, reconnectAttemptsRef, sources, timers,
                   userDisconnected>>
    /\ KeepBurst
    /\ WithinBound
    /\ UNCHANGED gridVars
    /\ TrackOverlap

\* The effect's cleanup (useSSE.ts:256-271): it closes the handle and clears the
\* timer held in the refs and sets the manual flag; it touches no React state
\* and does not reset the retry counter.
Cleanup(nextPhase) ==
    /\ phase' = nextPhase
    /\ sources' = CloseSource(sources, eventSourceRef)
    /\ eventSourceRef' = 0
    /\ timers' = ClearTimeout(timers, reconnectTimeoutRef)
    /\ reconnectTimeoutRef' = 0
    /\ UNCHANGED <<isConnected, connectionError, reconnectAttempts, reconnectAttemptsRef>>
    /\ UNCHANGED <<burstErrors, burstTimers, burstAuto, burstOnError, burstThrew,
                   burstZombie>>

\* Component unmount: the cleanup runs and nothing is run again.
Unmount ==
    /\ phase = "mounted"
    /\ Cleanup("unmounted")
    /\ isManualDisconnectRef' = TRUE
    /\ last' = Did("unmount")
    /\ UNCHANGED <<optVars, fetching, userDisconnected, maxReported>>
    /\ UNCHANGED gridVars
    /\ TrackOverlap

\* The autoConnect option changes while the component stays mounted
\* (useSSE.ts:273, the effect's only dependency): React runs the cleanup and
\* then the effect again, in one commit.
AutoConnectChange ==
    /\ phase = "mounted"
    /\ Cleanup("mounted")
    /\ autoConnect' = ~autoConnect
    /\ IF autoConnect'
       THEN /\ isManualDisconnectRef' = FALSE
            /\ fetching' = ConnectCall(fetching, autoReconnect)
            /\ userDisconnected' = FALSE
            /\ maxReported' = FALSE
       ELSE /\ isManualDisconnectRef' = TRUE
            /\ fetching' = fetching
            /\ UNCHANGED <<userDisconnected, maxReported>>
    /\ last' = Did("autoConnectChange")
    /\ UNCHANGED <<autoReconnect, maxReconnectAttempts>>
    /\ WithinBound
    /\ UNCHANGED gridVars
    /\ TrackOverlap

\* connect() resumes with an identity token (useSSE.ts:100-115, 190): a new
\* EventSource is created and stored in eventSourceRef, whatever the ref held.
FetchToken(ar) ==
    /\ fetching[ar] > 0
    /\ HasFree(SourceIds, sources)
    /\ LET id == NewId(SourceIds, sources) IN
        /\ sources' = [sources EXCEPT ![id] = [st |-> "connecting", ar |-> ar]]
        /\ eventSourceRef' = id
        /\ last' = Did("created")
    /\ fetching' = [fetching EXCEPT ![ar] = @ - 1]
    /\ UNCHANGED <<optVars, phase, timers, isConnected, connectionError, reconnectAttempts,
                   reconnectTimeoutRef, isManualDisconnectRef, reconnectAttemptsRef,
                   userDisconnected>>
    /\ KeepBurst
    /\ UNCHANGED gridVars
    /\ TrackOverlap

\* Variant: the missing token is counted as a failed attempt.
FetchNoTokenCountsAttempt(ar) ==
    /\ fetching[ar] > 0
    /\ fetching' = [fetching EXCEPT ![ar] = @ - 1]
    /\ connectionError' = ErrNoToken
    /\ reconnectAttemptsRef' = reconnectAttemptsRef + 1
    /\ reconnectAttempts' = reconnectAttemptsRef'
    /\ last' = Did("noToken")
    /\ UNCHANGED <<optVars, phase, sources, timers, isConnected, eventSourceRef,
                   reconnectTimeoutRef, isManualDisconnectRef, userDisconnected>>
    /\ KeepBurst
    /\ UNCHANGED gridVars
    /\ TrackOverlap

\* connect() resumes with a session that holds no identity token
\* (useSSE.ts:103-108).
FetchNoToken(ar) ==
    /\ fetching[ar] > 0
    /\ fetching' = [fetching EXCEPT ![ar] = @ - 1]
    /\ connectionError' = ErrNoToken
    /\ last' = Did("noToken")
    /\ UNCHANGED <<optVars, phase, sources, timers, isConnected, reconnectAttempts,
                   eventSourceRef, reconnectTimeoutRef, isManualDisconnectRef,
                   reconnectAttemptsRef, userDisconnected>>
    /\ KeepBurst
    /\ UNCHANGED gridVars
    /\ TrackOverlap

\* connect() resumes with an exception: fetchAuthSession() rejects or the
\* EventSource constructor throws (useSSE.ts:192-205).
FetchThrow(ar) ==
    /\ fetching[ar] > 0
    /\ fetching' = [fetching EXCEPT ![ar] = @ - 1]
    /\ connectionError' = ErrSetup
    /\ burstThrew' = TRUE
    /\ IF ShouldAutoReconnect(ar, isManualDisconnectRef)
       THEN /\ HasFree(TimerIds, timers)
            /\ burstTimers < MaxBurst
            /\ LET t == NewId(TimerIds, timers) IN
                /\ timers' = [timers EXCEPT ![t] = [st |-> "pending", ar |-> ar]]
                /\ reconnectTimeoutRef' = t
            /\ burstTimers' = burstTimers + 1
            /\ last' = [Did("throw") EXCEPT !.scheduled = TRUE]
       ELSE /\ UNCHANGED <<timers, reconnectTimeoutRef, burstTimers>>
            /\ last' = Did("throw")
    /\ UNCHANGED <<optVars, phase, sources, isConnected, reconnectAttempts, eventSourceRef,
                   isManualDisconnectRef, reconnectAttemptsRef, userDisconnected>>
    /\ UNCHANGED <<burstErrors, burstAuto, burstOnError, burstZombie, maxReported>>
    /\ UNCHANGED gridVars
    /\ TrackOverlap

\* Variant: onopen does not reset the retry counter.
OnOpenEffectsNoReset ==
    /\ isConnected' = TRUE
    /\ connectionError' = ErrNone
    /\ UNCHANGED <<reconnectAttemptsRef, reconnectAttempts>>

\* The state changes of eventSource.onopen (useSSE.ts:119-124).
OnOpenEffects ==
    /\ isConnected' = TRUE
    /\ connectionError' = ErrNone
    /\ reconnectAttemptsRef' = 0
    /\ reconnectAttempts' = 0

\* eventSource.onopen (useSSE.ts:117-129); onOpen is invoked once (:126-128).
SourceOpen(id) ==
    /\ sources[id].st = "connecting"
    /\ sources' = [sources EXCEPT ![id].st = "open"]
    /\ OnOpenEffects
    /\ last' = [Did("open") EXCEPT !.onOpen = 1]
    /\ ResetBurst
    /\ UNCHANGED <<optVars, phase, timers, fetching, eventSourceRef, reconnectTimeoutRef,
                   isManualDisconnectRef, userDisconnected>>
    /\ UNCHANGED gridVars
    /\ TrackOverlap

\* eventSource.onerror (useSSE.ts:145-188).
SourceError(id) ==
    /\ sources[id].st # "free"
    /\ burstErrors < MaxBurst
    /\ isConnected' = FALSE
    /\ sources' = CloseSource(sources, id)
    /\ eventSourceRef' = 0
    /\ burstErrors' = burstErrors + 1
    /\ burstOnError' = IF ShouldCallOnError(reconnectAttemptsRef)
                       THEN Min(burstOnError + 1, 2) ELSE burstOnError
    /\ LET ar == sources[id].ar
           called == ShouldCallOnError(reconnectAttemptsRef)
       IN
       IF ShouldAutoReconnect(ar, isManualDisconnectRef)
       THEN IF MaxReached(maxReconnectAttempts, reconnectAttemptsRef)
            THEN /\ connectionError' = ErrMaxRetries
                 /\ maxReported' = TRUE
                 /\ last' = [Did("error") EXCEPT !.onError = called, !.onMax = TRUE]
                 /\ UNCHANGED <<reconnectAttemptsRef, reconnectAttempts, timers,
                                reconnectTimeoutRef, burstTimers>>
            ELSE /\ HasFree(TimerIds, timers)
                 /\ reconnectAttemptsRef' = reconnectAttemptsRef + 1
                 /\ reconnectAttempts' = reconnectAttemptsRef'
                 /\ connectionError' = ErrRetry(reconnectAttemptsRef')
                 /\ LET t == NewId(TimerIds, timers) IN
                     /\ timers' = [timers EXCEPT ![t] = [st |-> "pending", ar |-> ar]]
                     /\ reconnectTimeoutRef' = t
                 /\ burstTimers' = burstTimers + 1
                 /\ last' = [Did("error") EXCEPT !.onError = called, !.scheduled = TRUE]
                 /\ UNCHANGED maxReported
       ELSE /\ connectionError' = ErrClosed
            /\ last' = [Did("error") EXCEPT !.onError = called]
            /\ UNCHANGED <<reconnectAttemptsRef, reconnectAttempts, timers,
                           reconnectTimeoutRef, burstTimers, maxReported>>
    /\ burstZombie' = (burstZombie \/ isManualDisconnectRef)
    /\ UNCHANGED <<optVars, phase, fetching, isManualDisconnectRef, userDisconnected>>
    /\ UNCHANGED <<burstAuto, burstThrew>>
    /\ UNCHANGED gridVars
    /\ TrackOverlap

\* A retry timer fires (useSSE.ts:181-184 and 200-203): it calls connect().
\* The ref keeps the id of the fired timer.
TimerFire(t) ==
    /\ timers[t].st = "pending"
    /\ timers' = [timers EXCEPT ![t] = FreeObj]
    /\ reconnectTimeoutRef' = IF reconnectTimeoutRef = t THEN StaleTimer
                              ELSE reconnectTimeoutRef
    /\ fetching' = ConnectCall(fetching, timers[t].ar)
    /\ burstAuto' = Min(burstAuto + 1, MaxBurst + 1)
    /\ last' = Did("timer")
    /\ UNCHANGED <<optVars, phase, sources, isConnected, connectionError, reconnectAttempts,
                   eventSourceRef, isManualDisconnectRef, reconnectAttemptsRef,
                   userDisconnected>>
    /\ UNCHANGED <<burstErrors, burstTimers, burstOnError, burstThrew, burstZombie,
                   maxReported>>
    /\ UNCHANGED gridVars
    /\ TrackOverlap

\* Message payloads: text that JSON.parse accepts, and text it rejects.
Payloads == {"json", "garbage"}

\* JSON.parse(event.data) returns a value (useSSE.ts:133); otherwise it throws.
JSONParses(payload) == payload = "json"

\* Variant: the handler has no try/catch around the parse.
OnMessageUnguarded(payload) ==
    [onEvent |-> JSONParses(payload), escaped |-> ~JSONParses(payload)]

\* The body of eventSource.onmessage (useSSE.ts:132-142): parse, hand the event
\* to onEvent; a parse error is caught and logged.
OnMessage(payload) ==
    [onEvent |-> JSONParses(payload), escaped |-> FALSE]

\* eventSource.onmessage (useSSE.ts:131-143).  Messages are delivered by an
\* open EventSource only.
SourceMessage(id, payload) ==
    /\ sources[id].st = "open"
    /\ last' = [Did("message") EXCEPT !.onEvent = OnMessage(payload).onEvent,
                                      !.escaped = OnMessage(payload).escaped]
    /\ UNCHANGED <<optVars, hookVars, envVars, userDisconnected>>
    /\ KeepBurst
    /\ UNCHANGED gridVars
    /\ TrackOverlap

\* Variant: disconnect() forgets the retry timer but clears the ref.
DisconnectEffectsLeakTimer ==
    /\ sources' = CloseSource(sources, eventSourceRef)
    /\ eventSourceRef' = 0
    /\ timers' = timers
    /\ reconnectTimeoutRef' = 0
    /\ isConnected' = FALSE
    /\ connectionError' = ErrNone
    /\ reconnectAttemptsRef' = 0
    /\ reconnectAttempts' = 0

\* The body of disconnect() apart from the manual flag (useSSE.ts:215-230):
\* close and clear the handle held in eventSourceRef, clear the timer held in
\* reconnectTimeoutRef, reset the React state and the retry counter.
DisconnectEffects ==
    /\ sources' = CloseSource(sources, eventSourceRef)
    /\ eventSourceRef' = 0
    /\ timers' = ClearTimeout(timers, reconnectTimeoutRef)
    /\ reconnectTimeoutRef' = 0
    /\ isConnected' = FALSE
    /\ connectionError' = ErrNone
    /\ reconnectAttemptsRef' = 0
    /\ reconnectAttempts' = 0

\* disconnect() (useSSE.ts:211-231).
Disconnect ==
    /\ phase = "mounted"
    /\ isManualDisconnectRef' = TRUE
    /\ DisconnectEffects
    /\ userDisconnected' = TRUE
    /\ last' = Did("disconnect")
    /\ ResetBurst
    /\ UNCHANGED <<optVars, phase, fetching>>
    /\ UNCHANGED gridVars
    /\ TrackOverlap

\* reconnect() (useSSE.ts:236-246): disconnect(), reset the counter, clear the
\* manual flag, connect() with the closure of the current render.
Reconnect ==
    /\ phase = "mounted"
    /\ DisconnectEffects
    /\ isManualDisconnectRef' = FALSE
    /\ fetching' = ConnectCall(fetching, autoReconnect)
    /\ userDisconnected' = FALSE
    /\ last' = Did("reconnect")
    /\ ResetBurst
    /\ UNCHANGED <<optVars, phase>>
    /\ WithinBound
    /\ UNCHANGED gridVars
    /\ TrackOverlap

Next ==
    \/ Mount
    \/ Unmount
    \/ AutoConnectChange
    \/ \E ar \in BOOLEAN : FetchToken(ar)
    \/ \E ar \in BOOLEAN : FetchNoToken(ar)
    \/ \E ar \in BOOLEAN : FetchThrow(ar)
    \/ \E id \in SourceIds : SourceOpen(id)
    \/ \E id \in SourceIds : SourceError(id)
    \/ \E t \in TimerIds : TimerFire(t)
    \/ Disconnect
    \/ Reconnect

Spec == Init /\ [][Next]_vars

\* The hook with message delivery.  onmessage reads and writes none of the
\* hook's state, so the life-cycle specification above leaves it out; here it
\* is added to every other task.  The retry budget plays no part in message
\* handling: it is fixed to one retry, which is enough for a message to arrive
\* while the retry counter is non-zero and while a retry timer is pending.
StreamInit == Init /\ maxReconnectAttempts = 1

StreamNext ==
    \/ Next
    \/ \E id \in SourceIds, payload \in Payloads : SourceMessage(id, payload)

StreamSpec == StreamInit /\ [][StreamNext]_vars

\* The hook left to itself after its mount: no disconnect(), no reconnect(),
\* no change of autoConnect, no unmount.  The browser runs every task that is
\* ready: the effect of the first commit, the continuation of a connect()
\* whose credential fetch has settled, a retry timer that is due.  The transport is one whose every connection
\* fails in the end, opened or not.
RetryNext ==
    \/ Mount
    \/ \E ar \in BOOLEAN : FetchToken(ar)
    \/ \E ar \in BOOLEAN : FetchNoToken(ar)
    \/ \E ar \in BOOLEAN : FetchThrow(ar)
    \/ \E id \in SourceIds : SourceOpen(id)
    \/ \E id \in SourceIds : SourceError(id)
    \/ \E t \in TimerIds : TimerFire(t)

RetrySpec ==
    /\ Init
    /\ [][RetryNext]_vars
    /\ WF_vars(Mount)
    /\ WF_vars(\E ar \in BOOLEAN : FetchToken(ar) \/ FetchNoToken(ar) \/ FetchThrow(ar))
    /\ WF_vars(\E id \in SourceIds : SourceError(id))
    /\ WF_vars(\E t \in TimerIds : TimerFire(t))

\* The hook as DevConsole uses it (src/src/components/DevConsole.tsx:48-66),
\* for a signed-in user: autoConnect is false, autoReconnect is the console's
\* enableSSE state, which starts false, and the retry limit is 10.  The
\* variable autoReconnect holds the option of the latest render.
ConsoleMaxAttempts == 10

ConsoleInit ==
    /\ autoConnect = FALSE
    /\ autoReconnect = FALSE
    /\ maxReconnectAttempts = ConsoleMaxAttempts
    /\ HookConstructed
    /\ grid = GridInitial(FALSE, Absent)

\* connectSSE (DevConsole.tsx:69-83): unless the hook reports connected,
\* setEnableSSE(true) and sseReconnect().  The state update takes effect with
\* the next render; reconnect, and the connect it calls, are those of the
\* render in which the handler was created (useSSE.ts:236-246).
ConnectSSE ==
    /\ phase = "mounted"
    /\ ~isConnected
    /\ autoReconnect' = TRUE
    /\ DisconnectEffects
    /\ isManualDisconnectRef' = FALSE
    /\ fetching' = ConnectCall(fetching, autoReconnect)
    /\ userDisconnected' = FALSE
    /\ last' = Did("reconnect")
    /\ ResetBurst
    /\ UNCHANGED <<autoConnect, maxReconnectAttempts, phase>>
    /\ WithinBound
    /\ UNCHANGED gridVars
    /\ TrackOverlap

\* disconnectSSE (DevConsole.tsx:85-89): setEnableSSE(false) and sseDisconnect().
DisconnectSSE ==
    /\ phase = "mounted"
    /\ autoReconnect' = FALSE
    /\ isManualDisconnectRef' = TRUE
    /\ DisconnectEffects
    /\ userDisconnected' = TRUE
    /\ last' = Did("disconnect")
    /\ ResetBurst
    /\ UNCHANGED <<autoConnect, maxReconnectAttempts, phase, fetching>>
    /\ UNCHANGED gridVars
    /\ TrackOverlap

\* Within the bound on consecutive errors the limit of 10 is not reached, so
\* onMaxRetriesReached (DevConsole.tsx:57-60), which would switch enableSSE
\* off, is never invoked and SourceError leaves the options alone.
ConsoleNext ==
    \/ Mount
    \/ Unmount
    \/ ConnectSSE
    \/ DisconnectSSE
    \/ \E ar \in BOOLEAN : FetchToken(ar)
    \/ \E ar \in BOOLEAN : FetchNoToken(ar)
    \/ \E ar \in BOOLEAN : FetchThrow(ar)
    \/ \E id \in SourceIds : SourceOpen(id)
    \/ \E id \in SourceIds : SourceError(id)
    \/ \E t \in TimerIds : TimerFire(t)

ConsoleSpec == ConsoleInit /\ [][ConsoleNext]_vars

\* =====================================================================
\* Part 2: AuctionsGrid
\* =====================================================================

\* ------------------------------------------------------ JavaScript values
\* Values that are falsy: `a || b` yields b for them (numbers and missing values).
Falsy(v) == v \in {Undefined, Null, 0}
\* a || b
JSOr(a, b) == IF Falsy(a) THEN b ELSE a
\* n + 1, where null converts to 0
JSPlusOne(n) == IF n = Null THEN 1 ELSE n + 1

\* ------------------------------------------------------------ the events
\* The case labels of the switch in handleSSEEvent (AuctionsGrid.tsx:44-133).
ConnectedTypes == {"connected"}
PriceTypes == {"bid.placed", "bids.placed", "BidPlaced", "BidsPlaced",
               "price.updated", "PriceUpdated"}
OpenedTypes == {"auction.opened", "AuctionOpened"}
ClosedTypes == {"auction.closed", "AuctionClosed"}
PaymentTypes == {"payment.required", "PaymentRequired"}
WonTypes == {"auction.won", "AuctionWon"}

\* A decoded event: its type and the properties of event.data that the handler
\* reads.  An event without data reads as one whose properties are all missing.
Event(type, auctionId, newPrice, amount, bidCount, winnerId) ==
    [type |-> type, auctionId |-> auctionId, newPrice |-> newPrice,
     amount |-> amount, bidCount |-> bidCount, winnerId |-> winnerId]

\* --------------------------------------------------- handleSSEEvent, by case
\* Variant: a bid count of 0 or null is taken as missing.
NewTotalBidsTruthy(auction, ev) ==
    IF ~Falsy(ev.bidCount) THEN ev.bidCount ELSE JSPlusOne(auction.totalBids)

\* AuctionsGrid.tsx:75
NewTotalBids(auction, ev) ==
    IF ev.bidCount # Undefined THEN ev.bidCount ELSE JSPlusOne(auction.totalBids)

\* AuctionsGrid.tsx:74
NewCurrentBid(auction, ev) ==
    JSOr(JSOr(ev.newPrice, ev.amount), auction.currentBid)

\* Whether the updater touches this auction (AuctionsGrid.tsx:56, 59).
Matches(id, ev) == ev.auctionId # Absent /\ id = ev.auctionId

\* Variant: one highlight timer for the whole set, restarted by every update.
OnPriceSharedTimer(g, ev) ==
    LET hit == {id \in DOMAIN g.auctions : Matches(id, ev)} IN
    [g EXCEPT
        !.auctions = [id \in DOMAIN g.auctions |->
                        IF id \in hit
                        THEN [g.auctions[id] EXCEPT
                                !.currentBid = NewCurrentBid(g.auctions[id], ev),
                                !.totalBids = NewTotalBids(g.auctions[id], ev)]
                        ELSE g.auctions[id]],
        !.updatedAuctionIds = @ \cup hit,
        !.highlightTimers = IF hit = {} THEN @ ELSE <<ev.auctionId>>]

\* The price-class cases (AuctionsGrid.tsx:49-82): the matching auction gets the
\* new price and count, its id is highlighted and a 3000 ms timer is started.
OnPrice(g, ev) ==
    LET hit == {id \in DOMAIN g.auctions : Matches(id, ev)} IN
    [g EXCEPT
        !.auctions = [id \in DOMAIN g.auctions |->
                        IF id \in hit
                        THEN [g.auctions[id] EXCEPT
                                !.currentBid = NewCurrentBid(g.auctions[id], ev),
                                !.totalBids = NewTotalBids(g.auctions[id], ev)]
                        ELSE g.auctions[id]],
        !.updatedAuctionIds = @ \cup hit,
        !.highlightTimers = IF hit = {} THEN @ ELSE Append(@, ev.auctionId)]

\* Variant: the opened event also empties the list while the refetch runs.
OnOpenedClearsList(g, ev) ==
    [g EXCEPT !.fetches = @ + 1, !.auctions = EmptyList]

\* The auction.opened cases (AuctionsGrid.tsx:84-89): handleRefresh() is called,
\* which starts one getAllAuctions() (AuctionsGrid.tsx:175-179).
OnOpened(g, ev) ==
    [g EXCEPT !.fetches = @ + 1]

\* Variant: the closed event removes the auction from the list.
OnClosedRemoves(g, ev) ==
    [g EXCEPT !.auctions = [id \in {i \in DOMAIN g.auctions : ~Matches(i, ev)} |->
                                g.auctions[id]]]

\* The auction.closed cases (AuctionsGrid.tsx:91-103).
OnClosed(g, ev) ==
    [g EXCEPT !.auctions = [id \in DOMAIN g.auctions |->
                                IF Matches(id, ev)
                                THEN [g.auctions[id] EXCEPT !.status = "closed"]
                                ELSE g.auctions[id]]]

\* The payment.required cases (AuctionsGrid.tsx:105-123).  c is the closure of
\* the handler: currentUsername and auctions are those of the render that
\* created it.
OnPayment(g, c, ev) ==
    IF ev.winnerId # Absent /\ ev.winnerId = c.currentUsername
    THEN LET found == ev.auctionId \in DOMAIN c.auctions
             title == IF found /\ c.auctions[ev.auctionId].title # Absent
                      THEN c.auctions[ev.auctionId].title ELSE "Auction Item"
             price == JSOr(JSOr(ev.amount,
                                IF found THEN c.auctions[ev.auctionId].currentBid
                                ELSE Undefined), 0)
         IN [g EXCEPT !.winnerNotification =
                        [shown |-> TRUE, auctionId |-> ev.auctionId,
                         auctionTitle |-> title, finalPrice |-> price]]
    ELSE g

\* Variant: the default branch refreshes the list.
HandleSSEEventDefaultRefetches(g, c, ev) ==
    CASE ev.type \in PriceTypes -> OnPrice(g, ev)
      [] ev.type \in OpenedTypes -> OnOpened(g, ev)
      [] ev.type \in ClosedTypes -> OnClosed(g, ev)
      [] ev.type \in PaymentTypes -> OnPayment(g, c, ev)
      [] ev.type \in ConnectedTypes \cup WonTypes -> g
      [] OTHER -> OnOpened(g, ev)

\* handleSSEEvent (AuctionsGrid.tsx:41-134): the switch compares event.type
\* with the case labels exactly.
HandleSSEEvent(g, c, ev) ==
    CASE ev.type \in PriceTypes -> OnPrice(g, ev)
      [] ev.type \in OpenedTypes -> OnOpened(g, ev)
      [] ev.type \in ClosedTypes -> OnClosed(g, ev)
      [] ev.type \in PaymentTypes -> OnPayment(g, c, ev)
      [] OTHER -> g

\* ---------------------------------------------------------- the inputs
\* Values an event carries in a price field and in bidCount.
PriceFields == {Undefined, Null} \cup Prices
CountFields == {Undefined, Null} \cup (0..MaxBids)
\* Events address the auction a1 or carry no auction id; a2 stands for every
\* other auction of the list.
EventIds == {"a1", Absent}
\* Type strings that are no case label: other spellings and an unknown type.
ForeignTypes == {"AUCTIONCLOSED", "bid.PLACED", "heartbeat"}

PriceEvents ==
    {Event(t, id, np, am, bc, Absent) :
        t \in PriceTypes, id \in EventIds, np \in PriceFields, am \in PriceFields,
        bc \in CountFields}
ClosedEvents ==
    {Event(t, id, Undefined, Undefined, Undefined, Absent) :
        t \in ClosedTypes, id \in EventIds}
PaymentEvents ==
    {Event(t, id, Undefined, am, Undefined, w) :
        t \in PaymentTypes, id \in EventIds, am \in PriceFields,
        w \in Usernames \cup {Absent}}
\* An event without an auction id, of which the handler reads nothing else,
\* is sent without data.
SentPriceEvents ==
    {ev \in PriceEvents :
        ev.auctionId = Absent =>
            <<ev.newPrice, ev.amount, ev.bidCount>> = <<Undefined, Undefined, Undefined>>}
\* Events whose data the handler does not read.
PlainEvents ==
    {Event(t, id, Undefined, Undefined, Undefined, Absent) :
        t \in ConnectedTypes \cup OpenedTypes \cup WonTypes \cup ForeignTypes,
        id \in EventIds}
\* The events that are not addressed to a user.
PublicEvents == SentPriceEvents \cup ClosedEvents \cup PlainEvents

\* The lists getAllAuctions() may return: any set of auctions, each with a
\* current price and a status.
FetchedLists ==
    UNION {[S -> [currentPrice : Prices, status : Statuses]] : S \in SUBSET AuctionIds}

\* Variant: the bid count of a fetched auction starts at one.
MapAuctionToDisplayCountsOne(id, auction) ==
    [title |-> TitleOf(id), currentBid |-> auction.currentPrice, totalBids |-> 1,
     status |-> auction.status]

\* mapAuctionToDisplay (types/auction.ts:61-77), for the fields of the model.
MapAuctionToDisplay(id, auction) ==
    [title |-> TitleOf(id), currentBid |-> auction.currentPrice, totalBids |-> 0,
     status |-> auction.status]

\* The handler of a render with this name prop and this list: its closure
\* holds the render's props and state (AuctionsGrid.tsx:41, 109, 111).
HandlerOf(name, list) ==
    [live |-> TRUE, auctions |-> list, currentUsername |-> name]

\* The model explores a state only within the bounds.
GridWithinBound(g) ==
    /\ Len(g.highlightTimers) <= MaxHighlightTimers
    /\ g.fetches <= MaxFetches
    /\ \A id \in DOMAIN g.auctions : g.auctions[id].totalBids <= MaxBids

HookUnchanged == UNCHANGED <<optVars, hookVars, envVars, histVars>>

\* ------------------------------------------------------ actions of the grid
\* The effects of the first commit: the hook's effect calls connect() when
\* autoConnect (= !!user) holds (AuctionsGrid.tsx:137-151, useSSE.ts:249-253),
\* and the list is fetched (AuctionsGrid.tsx:154-172).
GridMount ==
    /\ grid.phase = "init"
    /\ grid.inbox = <<>>
    /\ grid' = [grid EXCEPT
                  !.phase = "mounted",
                  !.fetches = @ + 1,
                  !.onEvent = IF grid.user
                              THEN HandlerOf(grid.currentUsername, grid.auctions)
                              ELSE NoHandler]
    /\ HookUnchanged

\* The parent renders the grid with other props.  The hook's effect depends
\* on autoConnect only (useSSE.ts:273): when !!user changes, the cleanup ends
\* the connection and, if a user is present, connect() of the new render runs.
PropsChange(u, name) ==
    /\ grid.phase = "mounted"
    /\ grid.inbox = <<>>
    /\ <<u, name>> # <<grid.user, grid.currentUsername>>
    /\ grid' = [grid EXCEPT
                  !.user = u,
                  !.currentUsername = name,
                  !.onEvent = IF u = grid.user THEN @
                              ELSE IF u THEN HandlerOf(name, grid.auctions)
                              ELSE NoHandler]
    /\ HookUnchanged

\* getAllAuctions() resolves (AuctionsGrid.tsx:159-162, 179-181).
FetchResponse(list) ==
    /\ grid.fetches > 0
    /\ grid.inbox = <<>>
    /\ grid' = [grid EXCEPT
                  !.fetches = @ - 1,
                  !.auctions = [id \in DOMAIN list |-> MapAuctionToDisplay(id, list[id])]]
    /\ HookUnchanged

\* getAllAuctions() rejects (AuctionsGrid.tsx:163-165, 182-184).
FetchFail ==
    /\ grid.fetches > 0
    /\ grid.inbox = <<>>
    /\ grid' = [grid EXCEPT !.fetches = @ - 1]
    /\ HookUnchanged

\* handleRefresh() called from the page: Try Again, or a card's update
\* (AuctionsGrid.tsx:175-188, 263, 279).
Refresh ==
    /\ grid.phase = "mounted"
    /\ grid.inbox = <<>>
    /\ grid.fetches < MaxFetches
    /\ grid' = [grid EXCEPT !.fetches = @ + 1]
    /\ HookUnchanged

\* A message arrives on the connection and is decoded (useSSE.ts:131-134): its
\* task starts.  No other task runs until the handler has returned.
Deliver(ev) ==
    /\ grid.onEvent.live
    /\ grid.inbox = <<>>
    /\ GridWithinBound(HandleSSEEvent(grid, grid.onEvent, ev))
    /\ grid' = [grid EXCEPT !.inbox = <<ev>>]
    /\ HookUnchanged

\* The connection hands the event to its handler (useSSE.ts:137-139,
\* AuctionsGrid.tsx:41-134).
HandleEvent ==
    /\ grid.inbox # <<>>
    /\ grid' = [HandleSSEEvent(grid, grid.onEvent, grid.inbox[1]) EXCEPT !.inbox = <<>>]
    /\ HookUnchanged

\* The oldest highlight timer fires (AuctionsGrid.tsx:64-70): all timers have
\* the same delay, so they fire in the order they were started.
HighlightExpire ==
    /\ grid.highlightTimers # <<>>
    /\ grid.inbox = <<>>
    /\ grid' = [grid EXCEPT
                  !.updatedAuctionIds = @ \ {Head(grid.highlightTimers)},
                  !.highlightTimers = Tail(@)]
    /\ HookUnchanged

\* The notification's onDismiss (AuctionsGrid.tsx:331-333).
DismissNotification ==
    /\ grid.winnerNotification.shown
    /\ grid.inbox = <<>>
    /\ grid' = [grid EXCEPT !.winnerNotification = NoNotification]
    /\ HookUnchanged

\* The payment dialog's onPaymentSuccess (AuctionsGrid.tsx:348-353): the
\* notification is cleared and the list is fetched again.  The dialog is
\* rendered only while a notification is held.
PaymentSuccess ==
    /\ grid.winnerNotification.shown
    /\ grid.inbox = <<>>
    /\ grid.fetches < MaxFetches
    /\ grid' = [grid EXCEPT !.winnerNotification = NoNotification,
                             !.fetches = @ + 1]
    /\ HookUnchanged

\* In this part the hook is represented by the handler closure; its own
\* variables rest.
HookAtRest == HookInit /\ ~autoConnect /\ ~autoReconnect /\ maxReconnectAttempts = 0

\* The list and the highlight set under the public events, for a session
\* whose props stay as first rendered: signed in as alice, or not signed in.
GridInit ==
    /\ HookAtRest
    /\ \E u \in BOOLEAN : grid = GridInitial(u, IF u THEN "alice" ELSE Absent)

GridNext ==
    \/ GridMount
    \/ \E list \in FetchedLists : FetchResponse(list)
    \/ FetchFail
    \/ Refresh
    \/ \E ev \in PublicEvents : Deliver(ev)
    \/ HandleEvent
    \/ HighlightExpire

GridSpec == GridInit /\ [][GridNext]_vars

\* The winner notification across renders: props change, lists arrive, payment
\* events are delivered, the notification is dismissed.
WinnerInit ==
    /\ HookAtRest
    /\ \E u \in BOOLEAN, name \in Usernames \cup {Absent} : grid = GridInitial(u, name)

WinnerNext ==
    \/ GridMount
    \/ \E u \in BOOLEAN, name \in Usernames \cup {Absent} : PropsChange(u, name)
    \/ \E list \in FetchedLists : FetchResponse(list)
    \/ \E ev \in PaymentEvents : Deliver(ev)
    \/ HandleEvent
    \/ DismissNotification

WinnerSpec == WinnerInit /\ [][WinnerNext]_vars

\* The notification slot: payment events that name either auction and carry
\* the amount, for any winner, while the props change and the notification is
\* dismissed or paid.
SlotEvents ==
    {Event(t, id, Undefined, 1, Undefined, w) :
        t \in PaymentTypes, id \in AuctionIds, w \in Usernames \cup {Absent}}

SlotNext ==
    \/ GridMount
    \/ \E u \in BOOLEAN, name \in Usernames \cup {Absent} : PropsChange(u, name)
    \/ \E list \in FetchedLists : FetchResponse(list)
    \/ \E ev \in SlotEvents : Deliver(ev)
    \/ HandleEvent
    \/ DismissNotification
    \/ PaymentSuccess

SlotSpec == WinnerInit /\ [][SlotNext]_vars

\* The highlight set over time.  Price updates arrive for either auction; each
\* carries the new price and the authoritative bid count, so that any number
\* of them can be handled.  The browser runs every task that is ready: a
\* message task that has started completes, and a timer that is due fires.
HighlightEvents ==
    {Event(t, id, 1, Undefined, 1, Absent) :
        t \in {"bid.placed", "PriceUpdated"}, id \in AuctionIds}

HighlightInit == HookAtRest /\ grid = GridInitial(TRUE, "alice")

HighlightNext ==
    \/ GridMount
    \/ \E list \in FetchedLists : FetchResponse(list)
    \/ Refresh
    \/ \E ev \in HighlightEvents : Deliver(ev)
    \/ HandleEvent
    \/ HighlightExpire

HighlightSpec ==
    /\ HighlightInit
    /\ [][HighlightNext]_vars
    /\ WF_vars(HandleEvent)
    /\ WF_vars(HighlightExpire)

\* =====================================================================
\* Properties
\* =====================================================================

\* The case the retry-budget claims are about: auto-reconnect is on with a
\* finite budget, and the current burst (everything since the last successful
\* open, disconnect() or reconnect()) consists of transport errors and their
\* retries only: no set-up exception happened in it and none of its errors hit
\* a connection while the manual-disconnect flag was set.
RetryBurst ==
    /\ autoReconnect
    /\ maxReconnectAttempts > 0
    /\ ~burstThrew
    /\ ~burstZombie

\* C1: at every moment at most one EventSource created by the hook is
\* un-closed, under any interleaving of mount, reconnect(), timers and
\* credential-fetch completions.
C1_AtMostOneLiveSource == Cardinality(LiveSources) <= 1

C3_TimersScheduledIsMin ==
    RetryBurst => burstTimers = Min(burstErrors, maxReconnectAttempts)

\* C3 witness: K = 2, three errors in the burst, two timers scheduled.
C3_Witness ==
    /\ RetryBurst /\ maxReconnectAttempts = 2
    /\ burstErrors = 3 /\ burstTimers = 2

\* C4 (as stated): once max-retries has been reported, no later timer or
\* transport event starts a connection attempt or schedules a retry timer,
\* until reconnect() (or disconnect()) resets the manager.
C4_TerminalUntilReconnect ==
    [][maxReported => (last'.op # "timer" /\ ~last'.scheduled)]_vars

\* C5 (as stated): after disconnect() and until the next connect request, no
\* connection is open or being opened, isConnected is false and no retry
\* timer is pending.
C5_StaysDisconnected ==
    userDisconnected => /\ LiveSources = {}
                        /\ ~isConnected
                        /\ PendingTimers = {}

C7_AttemptsResetByOpenAndReconnect ==
    /\ last.op = "open" =>
        (reconnectAttemptsRef = 0 /\ reconnectAttempts = 0 /\ last.onOpen = 1)
    /\ last.op = "reconnect" =>
        (reconnectAttemptsRef = 0 /\ reconnectAttempts = 0)

\* C7 witness: a connection has just opened after two failed attempts.
C7_Witness ==
    /\ last.op = "open" /\ last.before = 2
    /\ reconnectAttemptsRef = 0 /\ last.onOpen = 1

\* C8 (as stated): within one failure burst onError is invoked at most once.
\* Stated for histories in which no two connection attempts were ever in
\* progress at once and no error hit a manually disconnected connection.
C8_OnErrorOncePerBurst ==
    (~overlapped /\ ~burstZombie) => burstOnError <= 1

\* C8 (amended): onError is invoked for exactly the errors that occur while
\* the retry counter is 0; in a burst whose errors all occur while
\* auto-reconnect is in effect (option enabled, manual flag clear) that is at
\* most one error, so the errors of the retries do not invoke it.
C8_OnErrorOnlyAtZeroAttempts ==
    /\ last.op = "error" => (last.onError <=> last.before = 0)
    /\ (autoReconnect /\ ~burstZombie) => burstOnError <= 1

\* C8 witness: three consecutive errors of one burst, the callback invoked
\* once, not by the last of them.
C8_Witness ==
    /\ autoReconnect /\ ~burstZombie /\ last.op = "error" /\ ~last.onError
    /\ burstErrors = 3 /\ burstOnError = 1

\* C9 (as stated): between two resets the manager starts at most K automatic
\* (timer-driven) reconnect attempts, whatever made the attempts fail.
C9_AtMostKAutomaticAttempts ==
    (autoReconnect /\ maxReconnectAttempts > 0) => burstAuto <= maxReconnectAttempts

\* C10: when the credential fetch yields no identity token, connect() creates
\* no EventSource, sets the credential error, leaves the retry counter
\* unchanged and schedules no timer.
C10_NoTokenFailsFast ==
    [][last'.op = "noToken" =>
        /\ sources' = sources
        /\ eventSourceRef' = eventSourceRef
        /\ connectionError' = ErrNoToken
        /\ reconnectAttemptsRef' = reconnectAttemptsRef
        /\ reconnectAttempts' = reconnectAttempts
        /\ timers' = timers
        /\ reconnectTimeoutRef' = reconnectTimeoutRef
        /\ ~last'.scheduled]_vars

\* C10 witness: the connect() of a retry has just found no token; the counter
\* is still 1 and nothing is in progress.
C10_Witness ==
    /\ last.op = "noToken" /\ connectionError = ErrNoToken
    /\ reconnectAttemptsRef = 1 /\ PendingTimers = {} /\ LiveSources = {}

\* C11: a malformed message received while connected is dropped: onEvent is
\* not invoked, no error leaves the message callback, the connection is not
\* closed, isConnected stays true, and the retry counter and the retry timers
\* are unchanged.
C11_MalformedMessageDropped ==
    [][(last'.op = "message" /\ ~last'.onEvent) =>
        /\ ~last'.escaped
        /\ sources' = sources
        /\ eventSourceRef' = eventSourceRef
        /\ (isConnected => isConnected')
        /\ reconnectAttemptsRef' = reconnectAttemptsRef
        /\ reconnectAttempts' = reconnectAttempts
        /\ timers' = timers
        /\ reconnectTimeoutRef' = reconnectTimeoutRef]_vars

\* C11 witness: a malformed message has just been handled on the open
\* connection while a retry timer is pending, and the hook still reports
\* connected.
C11_Witness ==
    /\ last.op = "message" /\ ~last.onEvent /\ ~last.escaped
    /\ isConnected /\ eventSourceRef \in SourceIds
    /\ sources[eventSourceRef].st = "open"
    /\ PendingTimers # {}

\* C12 (as stated, for the unmount case): after the cleanup of the effect has
\* run no connection created by the hook is open or being opened and no retry
\* timer is pending, also when a connect() was awaiting the credential.
C12_CleanAfterUnmount ==
    phase = "unmounted" => (LiveSources = {} /\ PendingTimers = {})

\* ---------------------------------------------------------------------
\* Properties of the grid.  A step that takes an event out of the inbox is
\* the run of the handler on that event.
\* ---------------------------------------------------------------------
Handling == grid.inbox # <<>> /\ grid'.inbox = <<>>
\* The event being handled, in a state whose inbox holds one.
Ev == grid.inbox[1]
\* The handled event addresses an auction of the list.
Cached == Ev.auctionId \in DOMAIN grid.auctions
\* a ?? b: the first value that is neither null nor undefined.
Coalesce(a, b) == IF a \in {Undefined, Null} THEN b ELSE a
\* The state the handler leaves when it changes nothing.
Untouched == [grid EXCEPT !.inbox = <<>>]

\* C13 (as stated): a price-class event that addresses a cached auction sets
\* its currentBid to data.newPrice if that is non-null, else to data.amount if
\* that is non-null, else leaves it, for every value including 0.
C13_CurrentBidFirstNonNull ==
    [][(Handling /\ Ev.type \in PriceTypes /\ Cached) =>
        grid'.auctions[Ev.auctionId].currentBid =
            Coalesce(Ev.newPrice,
                     Coalesce(Ev.amount, grid.auctions[Ev.auctionId].currentBid))]_vars

\* C14 (as stated): a price-class event that addresses a cached auction sets
\* its totalBids to data.bidCount when that is non-null (0 included) and to
\* the previous totalBids + 1 otherwise.
C14_TotalBidsCountOrIncrement ==
    [][(Handling /\ Ev.type \in PriceTypes /\ Cached) =>
        grid'.auctions[Ev.auctionId].totalBids =
            Coalesce(Ev.bidCount, grid.auctions[Ev.auctionId].totalBids + 1)]_vars

\* C15: re-delivery of an authoritative event is idempotent: once an
\* auction.closed event, or a price-class event that carries data.bidCount,
\* has been handled, handling the same event again leaves the list as it is.
C15_RedeliveryIdempotent ==
    [][(Handling /\ (Ev.type \in ClosedTypes
                        \/ (Ev.type \in PriceTypes /\ Ev.bidCount # Undefined))) =>
        HandleSSEEvent(grid', grid'.onEvent, Ev).auctions = grid'.auctions]_vars

\* C15 witness: a price-class event that carries bidCount = 2 is about to be
\* handled for an auction that already shows that price and that count and is
\* still highlighted by the earlier delivery.
C15_Witness ==
    /\ grid.inbox # <<>> /\ Ev.type \in PriceTypes /\ Cached
    /\ Ev.bidCount = 2 /\ Ev.newPrice = 1
    /\ grid.auctions[Ev.auctionId].totalBids = 2
    /\ grid.auctions[Ev.auctionId].currentBid = 1
    /\ Ev.auctionId \in grid.updatedAuctionIds

\* C16 (as stated): a payment.required event whose data.winnerId is missing
\* or differs from the name of the local user changes no state at all.
C16_PaymentOnlyForLocalUser ==
    [][(Handling /\ Ev.type \in PaymentTypes
            /\ ~(Ev.winnerId # Absent /\ Ev.winnerId = grid.currentUsername)) =>
        grid' = Untouched]_vars

\* C17 (as stated): a payment.required event addressed to the local user
\* raises a notification that carries the title of the auction as the list
\* holds it when the event is handled (the generic label if it holds none)
\* and data.amount, else that auction's currentBid, else 0 (`else` read as
\* the code's ||).  Stated for a connection that was started under the
\* current user name.
C17_NotificationFromCurrentList ==
    [][(Handling /\ Ev.type \in PaymentTypes
            /\ Ev.winnerId # Absent /\ Ev.winnerId = grid.currentUsername
            /\ grid.onEvent.currentUsername = grid.currentUsername) =>
        /\ grid'.winnerNotification.auctionTitle =
              IF Cached THEN grid.auctions[Ev.auctionId].title ELSE "Auction Item"
        /\ grid'.winnerNotification.finalPrice =
              JSOr(JSOr(Ev.amount, IF Cached THEN grid.auctions[Ev.auctionId].currentBid
                                   ELSE Undefined), 0)]_vars

\* C18: handling an auction.opened event starts exactly one list fetch and
\* changes nothing else: no auction record, not the highlight set, not the
\* winner notification.
C18_OpenedOnlyRefetches ==
    [][(Handling /\ Ev.type \in OpenedTypes) =>
        grid' = [Untouched EXCEPT !.fetches = @ + 1]]_vars

\* C18 witness: an auction.opened event is about to be handled while the
\* list holds both auctions, one of them highlighted, and no fetch is running.
C18_Witness ==
    /\ grid.inbox # <<>> /\ Ev.type \in OpenedTypes
    /\ DOMAIN grid.auctions = AuctionIds
    /\ grid.updatedAuctionIds # {} /\ grid.fetches = 0

\* Letter case folded, for the type strings of the model.
LowerCase(t) ==
    CASE t \in {"BidPlaced"} -> "bidplaced"
      [] t \in {"BidsPlaced"} -> "bidsplaced"
      [] t \in {"PriceUpdated"} -> "priceupdated"
      [] t \in {"AuctionOpened"} -> "auctionopened"
      [] t \in {"AuctionClosed", "AUCTIONCLOSED"} -> "auctionclosed"
      [] t \in {"PaymentRequired"} -> "paymentrequired"
      [] t \in {"AuctionWon"} -> "auctionwon"
      [] t \in {"bid.PLACED"} -> "bid.placed"
      [] OTHER -> t
CaseLabels == ConnectedTypes \cup PriceTypes \cup OpenedTypes \cup ClosedTypes
                \cup PaymentTypes \cup WonTypes

\* C19 (as stated): dispatch ignores letter case: an event whose type equals
\* a case label when letter case is ignored is handled as the event with that
\* label and the same data would be.
C19_DispatchIgnoresCase ==
    [][Handling =>
        \A t \in CaseLabels :
            LowerCase(t) = LowerCase(Ev.type) =>
                grid' = [HandleSSEEvent(grid, grid.onEvent, [Ev EXCEPT !.type = t])
                            EXCEPT !.inbox = <<>>]]_vars

\* C20: no public stream event adds or removes an auction of the list; a
\* price-class event changes at most currentBid and totalBids of the auction
\* it addresses; an auction.closed event changes at most the status of the
\* auction it addresses, to closed; an event that addresses no cached auction
\* changes neither the list nor the highlight set.
C20_EventsTouchOnlyTheirAuction ==
    [][Handling =>
        /\ DOMAIN grid'.auctions = DOMAIN grid.auctions
        /\ \A id \in DOMAIN grid.auctions :
              id # Ev.auctionId => grid'.auctions[id] = grid.auctions[id]
        /\ (Ev.type \in PriceTypes /\ Cached) =>
              [grid'.auctions[Ev.auctionId] EXCEPT
                    !.currentBid = grid.auctions[Ev.auctionId].currentBid,
                    !.totalBids = grid.auctions[Ev.auctionId].totalBids]
                = grid.auctions[Ev.auctionId]
        /\ (Ev.type \in ClosedTypes /\ Cached) =>
              grid'.auctions[Ev.auctionId] =
                    [grid.auctions[Ev.auctionId] EXCEPT !.status = "closed"]
        /\ ~Cached =>
              /\ grid'.auctions = grid.auctions
              /\ grid'.updatedAuctionIds = grid.updatedAuctionIds]_vars

\* C20 witness: an auction.closed event for a1 is about to be handled while
\* the list holds a1 and a2, both open.
C20_Witness ==
    /\ grid.inbox # <<>> /\ Ev.type \in ClosedTypes /\ Ev.auctionId = "a1"
    /\ DOMAIN grid.auctions = AuctionIds
    /\ \A id \in AuctionIds : grid.auctions[id].status = "open"

\* C21: an event of type connected, auction.won / AuctionWon, or of a type
\* that is no case label, changes nothing: not the list, not the highlight
\* set, not the winner notification, no fetch is started, and the connection
\* keeps its handler.
C21_OtherEventsIgnored ==
    [][(Handling /\ (Ev.type \in ConnectedTypes \cup WonTypes
                        \/ Ev.type \notin CaseLabels)) =>
        grid' = Untouched]_vars

\* C21 witness: an event of an unknown type is about to be handled while the
\* list holds both auctions, a1 is highlighted and its timer is pending.
C21_Witness ==
    /\ grid.inbox # <<>> /\ Ev.type = "heartbeat"
    /\ DOMAIN grid.auctions = AuctionIds
    /\ "a1" \in grid.updatedAuctionIds /\ grid.highlightTimers # <<>>
    /\ grid.onEvent.live

\* The ids whose highlight timer is pending.
TimedIds == {grid.highlightTimers[i] : i \in DOMAIN grid.highlightTimers}

\* C22: highlight expiry is per entry.  A price-class event handled for a
\* cached auction puts its id into the highlight set and starts a timer of
\* its own; when a timer fires, the id it was started for leaves the set and
\* no other id does, whatever was inserted before or after; every highlighted
\* id has a timer pending; and once no further event arrives the highlight
\* set becomes empty and stays empty.
C22_HighlightExpiresPerEntry ==
    /\ [][(Handling /\ Ev.type \in PriceTypes /\ Cached) =>
            /\ Ev.auctionId \in grid'.updatedAuctionIds
            /\ grid'.highlightTimers = Append(grid.highlightTimers, Ev.auctionId)]_vars
    /\ [][(grid.highlightTimers # <<>>
                /\ grid'.highlightTimers = Tail(grid.highlightTimers)) =>
            grid'.updatedAuctionIds =
                grid.updatedAuctionIds \ {Head(grid.highlightTimers)}]_vars
    /\ [](grid.updatedAuctionIds \subseteq TimedIds)
    /\ (<>[](grid.inbox = <<>>) => <>[](grid.updatedAuctionIds = {}))

\* C22 witness: a1 and then a2 were updated; both are highlighted and the
\* timer of each is pending, a1's being due first.
C22_Witness ==
    /\ grid.updatedAuctionIds = {"a1", "a2"}
    /\ grid.highlightTimers = <<"a1", "a2">>
    /\ grid.inbox = <<>>

\* A step in which the response of a list fetch is applied.
Refetched == \E list \in FetchedLists : FetchResponse(list)

\* C23 (as stated): a refetch discards the highlight state: right after the
\* response of a list fetch has replaced the list, the highlight set is empty.
C23_RefetchClearsHighlights ==
    [][Refetched => grid'.updatedAuctionIds = {}]_vars

\* C24 (as stated): while the component is mounted, isConnected = true
\* implies that eventSourceRef refers to an opened, un-closed connection.
C24_ConnectedMeansOpenHandle ==
    (phase = "mounted" /\ isConnected) =>
        (eventSourceRef \in SourceIds /\ sources[eventSourceRef].st = "open")

\* The hook has been asked for a connection by its effect and is meant to
\* keep one: auto-reconnect is on, the component is mounted with autoConnect,
\* no manual disconnect is in force and max-retries has not been reported.
KeepsConnection ==
    /\ autoReconnect /\ autoConnect /\ phase = "mounted"
    /\ ~isManualDisconnectRef /\ ~maxReported
\* Recovery is under way: a retry timer is pending or a connect() is in
\* flight, awaiting the credential or the opening of its connection.
Recovering ==
    \/ PendingTimers # {}
    \/ fetching[TRUE] + fetching[FALSE] > 0
    \/ \E i \in SourceIds : sources[i].st = "connecting"

\* C25 (as stated): with auto-reconnect enabled the manager never silently
\* stops recovering: whenever it is not connected (and not manually
\* disconnected, unmounted or at max-retries) a retry timer is pending or a
\* connect() is in flight, also after the credential was unavailable.
C25_NeverStopsRecovering ==
    (KeepsConnection /\ ~isConnected) => Recovering

\* C25 (amended): the same, except after a connect() that found no
\* credential: that failure is reported in connectionError and is not retried.
C25_StopsOnlyForCredential ==
    (KeepsConnection /\ ~isConnected /\ connectionError # ErrNoToken) => Recovering

\* C25 witness: the connection opened and then failed; the first retry is
\* scheduled.
C25_Witness ==
    /\ KeepsConnection /\ ~isConnected /\ last.op = "error" /\ last.scheduled
    /\ connectionError = ErrRetry(1) /\ PendingTimers # {}

\* The terminal state: max-retries reported, nothing connected and nothing in
\* progress.
Terminal ==
    /\ maxReported /\ connectionError = ErrMaxRetries
    /\ ~isConnected /\ LiveSources = {} /\ PendingTimers = {}
    /\ fetching[TRUE] + fetching[FALSE] = 0

\* C26: with autoConnect and autoReconnect enabled and a budget K > 0, if the
\* credential is always available (the fetch neither comes back empty nor
\* throws) and no connection ever opens, the manager
\* reaches the terminal state and stays in it; once max-retries is reported
\* onMaxRetriesReached is not invoked again; with K = 0 max-retries is never
\* reported.
C26_ReachesTerminal ==
    /\ (autoConnect /\ autoReconnect /\ maxReconnectAttempts > 0
            /\ [](last.op \notin {"open", "noToken", "throw"})) => <>[]Terminal
    /\ [][maxReported => ~last'.onMax]_vars
    /\ [](maxReconnectAttempts = 0 => ~maxReported)

\* C26 witness: with K = 2 the third error in a row has just reported
\* max-retries, invoking onMaxRetriesReached, and nothing is pending.
C26_Witness ==
    /\ Terminal /\ maxReconnectAttempts = 2 /\ burstErrors = 3 /\ burstTimers = 2
    /\ last.op = "error" /\ last.onMax /\ ~last.scheduled

\* C27: when the response of a list fetch is applied the list becomes exactly
\* the fetched records: the same ids, each with totalBids = 0, currentBid =
\* the fetched currentPrice and the fetched status and title, whatever stream
\* events changed while the fetch was in flight; when the fetch fails the
\* list is left as it is.
C27_RefetchReplacesList ==
    [][/\ \A list \in FetchedLists :
            FetchResponse(list) =>
                /\ DOMAIN grid'.auctions = DOMAIN list
                /\ \A id \in DOMAIN list :
                      grid'.auctions[id] =
                          [title |-> TitleOf(id), currentBid |-> list[id].currentPrice,
                           totalBids |-> 0, status |-> list[id].status]
       /\ FetchFail => grid'.auctions = grid.auctions]_vars

\* C27 witness: a list fetch is in flight while the list shows a1 closed,
\* with the price 1 and the two bids that a stream event has set.
C27_Witness ==
    /\ grid.fetches > 0 /\ grid.inbox = <<>>
    /\ "a1" \in DOMAIN grid.auctions
    /\ grid.auctions["a1"].status = "closed"
    /\ grid.auctions["a1"].currentBid = 1 /\ grid.auctions["a1"].totalBids = 2

\* C28 (as stated): an auction stays highlighted for 3000 ms after every
\* price-class event handled for it, also when an earlier event for the same
\* auction was handled less than 3000 ms before: as long as the timer that an
\* event started is pending, the event's auction is in the highlight set.
C28_HighlightedWhileTimerPending ==
    TimedIds \subseteq grid.updatedAuctionIds

\* C29 (as stated): in DevConsole a connection started by the Connect action
\* runs with auto-reconnect in effect: a transport error on it, while no
\* disconnect is in force, schedules a retry and counts it against the limit
\* of 10.
C29_ConsoleConnectionRetries ==
    [][(last'.op = "error" /\ phase = "mounted" /\ ~isManualDisconnectRef) =>
        /\ last'.scheduled
        /\ reconnectAttemptsRef' = reconnectAttemptsRef + 1
        /\ reconnectAttemptsRef' <= ConsoleMaxAttempts
        /\ connectionError' = ErrRetry(reconnectAttemptsRef')]_vars

\* C30 (as stated): one winner notification is held at most: a payment event
\* addressed to the local user puts its own notification in the place of
\* whatever was held, and dismissing the notification or paying clears it.
C30_OneNotificationReplaced ==
    [][/\ (Handling /\ Ev.type \in PaymentTypes
                /\ Ev.winnerId # Absent /\ Ev.winnerId = grid.currentUsername) =>
            /\ grid'.winnerNotification.shown
            /\ grid'.winnerNotification.auctionId = Ev.auctionId
       /\ (DismissNotification \/ PaymentSuccess) =>
            grid'.winnerNotification = NoNotification]_vars

====
